---- MODULE Spec2Model ----
(***************************************************************************)
(* Model of apd/src/cli.rs: the entry point run() of the APatch daemon.    *)
(* One process; inputs are argv[0], the parsed command line and the target *)
(* platform; the collaborators (root shell, supercall, events, modules,    *)
(* mount-namespace switch) answer nondeterministically and every call run()*)
(* makes is recorded, in order, in `calls`.                                *)
(***************************************************************************)
EXTENDS Integers, Sequences, FiniteSets, TLC

\* ---------------------------------------------------------------- bounds
MaxArg0Len == 3
MaxStrLen == 2
MaxStatus == 2
MaxErrCode == 2

\* ---------------------------------------------------------------- values
\* Option<T>: None or Some(x)
None == <<>>
Some(x) == <<x>>
IsSome(o) == Len(o) = 1
Unwrap(o) == o[1]

\* characters an invocation name is made of
Chars == {"s", "u", "k", "p", "/", "r"}
\* bytes an argument string is made of: the NUL byte 0 and a non-NUL byte
Bytes == {0, 1}

StrsUpTo(S, n) == UNION {[1 .. k -> S] : k \in 0 .. n}
Arg0Strings == StrsUpTo(Chars, MaxArg0Len)
ArgStrings == StrsUpTo(Bytes, MaxStrLen)

\* anyhow::Result<()>
Ok == [tag |-> "Ok", msg |-> "", code |-> 0]
Err(m, c) == [tag |-> "Err", msg |-> m, code |-> c]
IsErr(r) == r.tag = "Err"
\* the () a unit function returns, and the c_long a supercall returns
Unit == [tag |-> "Unit", msg |-> "", code |-> 0]
Status(n) == [tag |-> "Status", msg |-> "", code |-> n]

\* enum Commands / enum Module / enum Kpmsub
Command(c, s, x, y) == [cmd |-> c, sub |-> s, a1 |-> x, a2 |-> y]
EventCommands == {Command(c, "", <<>>, <<>>) : c \in {"PostFsData", "Services", "BootCompleted"}}
ListenerCommands == {Command("UidListener", "", <<>>, <<>>)}
ModuleSubs == {"Install", "Uninstall", "Enable", "Disable", "Action"}
ModuleCommands ==
    {Command("Module", s, x, <<>>) : s \in ModuleSubs, x \in ArgStrings}
        \cup {Command("Module", "List", <<>>, <<>>)}
KpmCommands == {Command("Kpm", "Load", k, p) : k \in ArgStrings, p \in ArgStrings}
Commands == EventCommands \cup ListenerCommands \cup ModuleCommands \cup KpmCommands

\* struct Args
Args == [superkey : {None} \cup {Some(k) : k \in ArgStrings}, command : Commands]

TargetOS == {"android", "linux", "macos"}

\* what the collaborators may answer
CollabResults(who) == {Ok} \cup {Err(who, c) : c \in 1 .. MaxErrCode}
Statuses == (0 - MaxStatus) .. MaxStatus

Call(op, args, res) == [op |-> op, args |-> args, res |-> res]
LogEntry(lvl, x) == [level |-> lvl, what |-> x]

\* ---------------------------------------------------------------- state
VARIABLES
    argv0,       \* Option<String>: std::env::args().next()
    cmdline,     \* what clap makes of the command line: Some(Args), or None if it rejects it
    target_os,   \* the platform the binary was built for
    pc,          \* position of run()
    logger,      \* the logger installed
    arg0,        \* local arg0
    cli,         \* local cli: Option<Args>
    privileged,  \* kernel side: whether the registration took effect
    calls,       \* the collaborator calls made so far, in order
    log,         \* what run() has logged so far, in order
    result,      \* local result: Option<Result>
    ret          \* what run() returned: Option<Result>

vars == <<argv0, cmdline, target_os, pc, logger, arg0, cli, privileged, calls, log, result, ret>>
inputs == <<argv0, cmdline, target_os>>

\* ---------------------------------------------------------------- helpers
EndsWith(s, suf) ==
    /\ Len(s) >= Len(suf)
    /\ SubSeq(s, Len(s) - Len(suf) + 1, Len(s)) = suf

\* Option::unwrap_or_default on Option<String>
UnwrapOrDefault(o) == IF IsSome(o) THEN Unwrap(o) ELSE <<>>

\* (variant: the name must be exactly an alias)
IsRootShellName_Exact(a) == a = <<"k", "p">> \/ a = <<"s", "u">>

\* (variant: the "kp" alias is forgotten)
IsRootShellName_SuOnly(a) == EndsWith(a, <<"s", "u">>)

\* arg0.ends_with("kp") || arg0.ends_with("su")
IsRootShellName(a) == EndsWith(a, <<"k", "p">>) \/ EndsWith(a, <<"s", "u">>)

\* if let Some(ref _superkey) = cli.superkey
ShouldRegister(a) == IsSome(a.superkey)

\* (variant: the credential is dropped on the way to the collaborator)
EventCredential_Dropped(a) == None

\* the credential handed to the event collaborators
EventCredential(a) == a.superkey

\* (variant: the string is cut at its first NUL instead of being refused)
CStringNew_Truncating(s) ==
    LET I == {i \in 1 .. Len(s) : s[i] = 0}
        n == IF I = {} THEN Len(s) ELSE (CHOOSE i \in I : \A j \in I : i <= j) - 1
    IN  [ok |-> TRUE, bytes |-> SubSeq(s, 1, n) \o <<0>>]

\* CString::new: fails on an interior NUL, else the bytes with a NUL appended
CStringNew(s) ==
    IF \E i \in 1 .. Len(s) : s[i] = 0
    THEN [ok |-> FALSE, bytes |-> <<>>]
    ELSE [ok |-> TRUE, bytes |-> s \o <<0>>]

\* (variant: the registered superkey is sent instead of the positional key)
KpmKey_Superkey(a) == UnwrapOrDefault(a.superkey)

\* the key and path `kpm load` hands to sc_kpm_load
KpmKey(a) == a.command.a1
KpmPath(a) == a.command.a2

\* (variant: `ret <= 0` instead of `ret < 0`)
KpmLoadResult_ZeroFails(st) ==
    IF st <= 0 THEN Err("System call failed with error code", st) ELSE Ok

\* if ret < 0 { Err(...code ret) } else { Ok(()) }
KpmLoadResult(st) ==
    IF st < 0 THEN Err("System call failed with error code", st) ELSE Ok

\* #[cfg(any(target_os = "linux", target_os = "android"))]
HasMntNs(os) == os \in {"linux", "android"}

\* the module function each Module subcommand is routed to
ModuleFn(sub) ==
    CASE sub = "Install" -> "install_module"
      [] sub = "Uninstall" -> "uninstall_module"
      [] sub = "Action" -> "run_action"
      [] sub = "Enable" -> "enable_module"
      [] sub = "Disable" -> "disable_module"
      [] sub = "List" -> "list_modules"

ModuleArgs(c) == IF c.sub = "List" THEN <<>> ELSE <<c.a1>>

\* the event function each event command is routed to
EventFn(c) ==
    CASE c = "PostFsData" -> "on_post_data_fs"
      [] c = "BootCompleted" -> "on_boot_completed"
      [] c = "Services" -> "on_services"

\* ---------------------------------------------------------------- actions
Start ==
    /\ pc = "start"
    /\ logger' = IF target_os = "android" THEN "android_logger" ELSE "env_logger"
    /\ pc' = "resolve"
    /\ UNCHANGED <<inputs, arg0, cli, privileged, calls, log, result, ret>>

ResolveRole ==
    /\ pc = "resolve"
    /\ arg0' = UnwrapOrDefault(argv0)
    /\ pc' = IF IsRootShellName(arg0') THEN "root_shell" ELSE "parse"
    /\ UNCHANGED <<inputs, logger, cli, privileged, calls, log, result, ret>>

\* (variant: the `return` is missing and run() goes on to parse the arguments)
RootShell_FallThrough ==
    /\ pc = "root_shell"
    /\ \E r \in CollabResults("root_shell") :
        calls' = Append(calls, Call("root_shell", <<>>, r))
    /\ pc' = "parse"
    /\ UNCHANGED <<inputs, logger, arg0, cli, privileged, log, result, ret>>

RootShell ==
    /\ pc = "root_shell"
    /\ \E r \in CollabResults("root_shell") :
        /\ calls' = Append(calls, Call("root_shell", <<>>, r))
        /\ ret' = Some(r)
    /\ pc' = "done"
    /\ UNCHANGED <<inputs, logger, arg0, cli, privileged, log, result>>

ParseArgs ==
    /\ pc = "parse"
    /\ IF IsSome(cmdline)
       THEN /\ cli' = cmdline
            /\ log' = Append(log, LogEntry("info", Unwrap(cmdline).command))
            /\ pc' = "register"
       ELSE /\ pc' = "exited"
            /\ UNCHANGED <<cli, log>>
    /\ UNCHANGED <<inputs, logger, arg0, privileged, calls, result, ret>>

\* (variant: a registration that did not take effect aborts run())
RegisterPrivilege_Fatal ==
    /\ pc = "register"
    /\ IF ShouldRegister(Unwrap(cli))
       THEN \E took \in BOOLEAN :
            /\ calls' = Append(calls, Call("privilege_apd_profile", <<Unwrap(cli).superkey>>, Unit))
            /\ privileged' = took
            /\ IF took
               THEN pc' = "dispatch" /\ ret' = ret
               ELSE pc' = "done" /\ ret' = Some(Err("privilege_apd_profile", 1))
       ELSE /\ pc' = "dispatch"
            /\ UNCHANGED <<calls, privileged, ret>>
    /\ UNCHANGED <<inputs, logger, arg0, cli, log, result>>

RegisterPrivilege ==
    /\ pc = "register"
    /\ IF ShouldRegister(Unwrap(cli))
       THEN \E took \in BOOLEAN :
            /\ calls' = Append(calls, Call("privilege_apd_profile", <<Unwrap(cli).superkey>>, Unit))
            /\ privileged' = took
       ELSE UNCHANGED <<calls, privileged>>
    /\ pc' = "dispatch"
    /\ UNCHANGED <<inputs, logger, arg0, cli, log, result, ret>>

DispatchEvent ==
    /\ pc = "dispatch"
    /\ Unwrap(cli).command \in EventCommands
    /\ LET fn == EventFn(Unwrap(cli).command.cmd) IN
       \E r \in CollabResults(fn) :
        /\ calls' = Append(calls, Call(fn, <<EventCredential(Unwrap(cli))>>, r))
        /\ result' = Some(r)
    /\ pc' = "log_result"
    /\ UNCHANGED <<inputs, logger, arg0, cli, privileged, log, ret>>

DispatchUidListener ==
    /\ pc = "dispatch"
    /\ Unwrap(cli).command.cmd = "UidListener"
    /\ \E r \in CollabResults("start_uid_listener") :
        /\ calls' = Append(calls, Call("start_uid_listener", <<>>, r))
        /\ result' = Some(r)
    /\ pc' = "log_result"
    /\ UNCHANGED <<inputs, logger, arg0, cli, privileged, log, ret>>

DispatchKpmLoad ==
    /\ pc = "dispatch"
    /\ Unwrap(cli).command.cmd = "Kpm"
    /\ LET key_cstr == CStringNew(KpmKey(Unwrap(cli)))
           path_cstr == CStringNew(KpmPath(Unwrap(cli)))
       IN  IF ~key_cstr.ok
           THEN /\ ret' = Some(Err("Invalid key string", 0))
                /\ pc' = "done"
                /\ UNCHANGED <<calls, result>>
           ELSE IF ~path_cstr.ok
           THEN /\ ret' = Some(Err("Invalid path string", 0))
                /\ pc' = "done"
                /\ UNCHANGED <<calls, result>>
           ELSE \E st \in Statuses :
                /\ calls' = Append(calls,
                       Call("sc_kpm_load", <<key_cstr.bytes, path_cstr.bytes>>, Status(st)))
                /\ result' = Some(KpmLoadResult(st))
                /\ pc' = "log_result"
                /\ UNCHANGED ret
    /\ UNCHANGED <<inputs, logger, arg0, cli, privileged, log>>

\* (variant: the `?` is missing and a failed switch is ignored)
SwitchMntNs_Unchecked ==
    /\ pc = "dispatch"
    /\ Unwrap(cli).command.cmd = "Module"
    /\ IF HasMntNs(target_os)
       THEN \E r \in CollabResults("switch_mnt_ns") :
            calls' = Append(calls, Call("switch_mnt_ns", <<1>>, r))
       ELSE UNCHANGED calls
    /\ pc' = "module_op"
    /\ UNCHANGED <<inputs, logger, arg0, cli, privileged, log, result, ret>>

SwitchMntNs ==
    /\ pc = "dispatch"
    /\ Unwrap(cli).command.cmd = "Module"
    /\ IF HasMntNs(target_os)
       THEN \E r \in CollabResults("switch_mnt_ns") :
            /\ calls' = Append(calls, Call("switch_mnt_ns", <<1>>, r))
            /\ IF IsErr(r)
               THEN ret' = Some(r) /\ pc' = "done"
               ELSE ret' = ret /\ pc' = "module_op"
       ELSE /\ pc' = "module_op"
            /\ UNCHANGED <<calls, ret>>
    /\ UNCHANGED <<inputs, logger, arg0, cli, privileged, log, result>>

ModuleOp ==
    /\ pc = "module_op"
    /\ LET c == Unwrap(cli).command IN
       \E r \in CollabResults(ModuleFn(c.sub)) :
        /\ calls' = Append(calls, Call(ModuleFn(c.sub), ModuleArgs(c), r))
        /\ result' = Some(r)
    /\ pc' = "log_result"
    /\ UNCHANGED <<inputs, logger, arg0, cli, privileged, log, ret>>

LogResult ==
    /\ pc = "log_result"
    /\ log' = IF IsErr(Unwrap(result)) THEN Append(log, LogEntry("error", Unwrap(result))) ELSE log
    /\ ret' = result
    /\ pc' = "done"
    /\ UNCHANGED <<inputs, logger, arg0, cli, privileged, calls, result>>

Next ==
    \/ Start
    \/ ResolveRole
    \/ RootShell
    \/ ParseArgs
    \/ RegisterPrivilege
    \/ DispatchEvent
    \/ DispatchUidListener
    \/ DispatchKpmLoad
    \/ SwitchMntNs
    \/ ModuleOp
    \/ LogResult

\* ---------------------------------------------------------------- specifications
InitLocals ==
    /\ pc = "start"
    /\ logger = "none"
    /\ arg0 = <<>>
    /\ cli = None
    /\ privileged = FALSE
    /\ calls = <<>>
    /\ log = <<>>
    /\ result = None
    /\ ret = None

\* invocation names the kernel and the user give the binary, and a few near misses
CommonArg0 ==
    {None, Some(<<>>), Some(<<"s", "u">>), Some(<<"k", "p">>), Some(<<"/", "s", "u">>), Some(<<"r">>)}

\* one command line of each kind, for the runs that explore every invocation name
CommonArgs ==
    {a \in Args :
        /\ a.superkey \in {None, Some(<<1>>)}
        /\ a.command.a1 \in {<<>>, <<1>>}
        /\ a.command.a2 \in {<<>>, <<0>>}
        /\ a.command.sub \in {"", "Load", "List", "Install"}}

\* every command line, a few invocation names
Init ==
    /\ argv0 \in CommonArg0
    /\ cmdline \in {None} \cup {Some(a) : a \in Args}
    /\ target_os \in TargetOS
    /\ InitLocals

Spec == Init /\ [][Next]_vars

\* every invocation name, a few command lines
InitRole ==
    /\ argv0 \in {None} \cup {Some(s) : s \in Arg0Strings}
    /\ cmdline \in {None} \cup {Some(a) : a \in CommonArgs}
    /\ target_os \in TargetOS
    /\ InitLocals

SpecRole == InitRole /\ [][Next]_vars

TypeOK ==
    /\ pc \in {"start", "resolve", "root_shell", "parse", "exited", "register", "dispatch",
               "module_op", "log_result", "done"}
    /\ logger \in {"none", "android_logger", "env_logger"}
    /\ privileged \in BOOLEAN
    /\ Len(cli) <= 1 /\ Len(result) <= 1 /\ Len(ret) <= 1
\* ---------------------------------------------------------------- vocabulary of the properties
Aliases == {<<"s", "u">>, <<"k", "p">>}
InvocationName == UnwrapOrDefault(argv0)
LastSlash(s) == LET I == {i \in 1 .. Len(s) : s[i] = "/"} IN
                IF I = {} THEN 0 ELSE CHOOSE i \in I : \A j \in I : j <= i
FinalComponent(s) == SubSeq(s, LastSlash(s) + 1, Len(s))
LastTwo(s) == IF Len(s) < 2 THEN <<>> ELSE <<s[Len(s) - 1], s[Len(s)]>>
Count(op) == Cardinality({i \in 1 .. Len(calls) : calls[i].op = op})
Resolved == pc \notin {"start", "resolve"}
TookRootShell == pc = "root_shell" \/ Count("root_shell") > 0
TookManagementCLI == pc \in {"parse", "exited", "register", "dispatch", "module_op", "log_result"} \/ cli # None

\* C1 (as stated): run() takes the RootShell path exactly when the final path
\* component of argv[0] EQUALS "su" or "kp", and the ManagementCLI path otherwise.
C1_FinalComponentEquals ==
    Resolved =>
        /\ TookRootShell <=> FinalComponent(InvocationName) \in Aliases
        /\ TookManagementCLI <=> FinalComponent(InvocationName) \notin Aliases

\* C1 (amended): run() takes the RootShell path exactly when the final path
\* component of argv[0] ENDS WITH "su" or "kp", and the ManagementCLI path
\* otherwise; a name that has an alias as a proper suffix is a RootShell name.
C1_FinalComponentEndsWith ==
    Resolved =>
        /\ TookRootShell <=> LastTwo(FinalComponent(InvocationName)) \in Aliases
        /\ TookManagementCLI <=> LastTwo(FinalComponent(InvocationName)) \notin Aliases

C1_Witness ==
    /\ pc = "done"
    /\ argv0 = Some(<<"r", "s", "u">>)
    /\ Count("root_shell") = 1
    /\ cli = None

\* C2: right after role resolution, run() is on the RootShell path if argv[0]
\* ends in "su" or "kp" and on the ManagementCLI path for every other string;
\* an empty or missing argv[0] gives ManagementCLI, and resolution itself
\* returns no error, makes no call and logs nothing.
C2_SuffixSelectsRole ==
    pc \in {"root_shell", "parse"} =>
        /\ pc = "root_shell" <=> LastTwo(InvocationName) \in Aliases
        /\ argv0 \in {None, Some(<<>>)} => pc = "parse"
        /\ ret = None /\ calls = <<>> /\ log = <<>>

C2_Witness ==
    /\ pc = "parse"
    /\ argv0 = None
    /\ arg0 = <<>>

\* C3: on the RootShell path root_shell() is called exactly once and its
\* result is what run() returns; nothing is parsed, registered, logged or
\* dispatched and no other collaborator is ever called.
C3_RootShellOnly ==
    (Resolved /\ LastTwo(InvocationName) \in Aliases) =>
        /\ cli = None /\ log = <<>> /\ result = None /\ ~privileged
        /\ pc \in {"root_shell", "done"}
        /\ \A i \in 1 .. Len(calls) : calls[i].op = "root_shell"
        /\ pc = "root_shell" => calls = <<>> /\ ret = None
        /\ pc = "done" => Len(calls) = 1 /\ ret = Some(calls[1].res)

C3_Witness ==
    /\ pc = "done"
    /\ argv0 = Some(<<"k", "p">>)
    /\ Len(calls) = 1
    /\ ret = Some(Err("root_shell", 1))
ModuleFns == {"install_module", "uninstall_module", "run_action", "enable_module",
              "disable_module", "list_modules"}
EventFns == {"on_post_data_fs", "on_boot_completed", "on_services"}
Parsed == cli # None
TheCommand == Unwrap(cli).command
TheSuperkey == Unwrap(cli).superkey
HasNul(s) == \E i \in 1 .. Len(s) : s[i] = 0
Dispatched == pc \in {"module_op", "log_result", "done"}

\* C4: for a module command on a platform with mount namespaces,
\* switch_mnt_ns(1) is called exactly once and before any module function;
\* if it fails no module function is called and run() returns its error.
C4_SwitchBeforeModule ==
    (Parsed /\ TheCommand.cmd = "Module" /\ HasMntNs(target_os)) =>
        /\ Count("switch_mnt_ns") <= 1
        /\ Dispatched => Count("switch_mnt_ns") = 1
        /\ \A i \in 1 .. Len(calls) :
              calls[i].op \in ModuleFns =>
                 \E j \in 1 .. i - 1 :
                    /\ calls[j].op = "switch_mnt_ns"
                    /\ calls[j].args = <<1>>
                    /\ ~IsErr(calls[j].res)
        /\ \A j \in 1 .. Len(calls) :
              (calls[j].op = "switch_mnt_ns" /\ IsErr(calls[j].res)) =>
                 /\ \A i \in 1 .. Len(calls) : calls[i].op \notin ModuleFns
                 /\ pc = "done"
                 /\ ret = Some(calls[j].res)

C4_Witness ==
    /\ pc = "done"
    /\ Parsed /\ TheCommand.cmd = "Module" /\ TheCommand.sub = "Install"
    /\ target_os = "android"
    /\ Count("switch_mnt_ns") = 1
    /\ calls[Len(calls)].op = "switch_mnt_ns"
    /\ ret = Some(Err("switch_mnt_ns", 2))

\* C5: for `kpm load`, if the key or the path contains a NUL byte,
\* sc_kpm_load is never called and run() returns an input error.
C5_NulRejectedBeforeCall ==
    (Parsed /\ TheCommand.cmd = "Kpm" /\ (HasNul(TheCommand.a1) \/ HasNul(TheCommand.a2))) =>
        /\ Count("sc_kpm_load") = 0
        /\ pc # "log_result"
        /\ pc = "done" =>
              /\ IsSome(ret)
              /\ Unwrap(ret) \in {Err("Invalid key string", 0), Err("Invalid path string", 0)}

C5_Witness ==
    /\ pc = "done"
    /\ Parsed /\ TheCommand.cmd = "Kpm"
    /\ TheCommand.a1 = <<1, 0>>
    /\ ret = Some(Err("Invalid key string", 0))
    /\ Count("sc_kpm_load") = 0

\* C6: for `kpm load` with a valid key and path, sc_kpm_load is called
\* exactly once; a negative status makes run() return an error carrying that
\* status, a status >= 0 makes it return Ok.
C6_StatusDecidesResult ==
    (Parsed /\ TheCommand.cmd = "Kpm" /\ ~HasNul(TheCommand.a1) /\ ~HasNul(TheCommand.a2)) =>
        /\ Count("sc_kpm_load") <= 1
        /\ Dispatched =>
              /\ Count("sc_kpm_load") = 1
              /\ LET st == calls[Len(calls)].res.code IN
                 /\ calls[Len(calls)].op = "sc_kpm_load"
                 /\ pc = "done" =>
                       /\ IsSome(ret)
                       /\ st < 0 => (IsErr(Unwrap(ret)) /\ Unwrap(ret).code = st)
                       /\ st >= 0 => Unwrap(ret) = Ok

C6_Witness ==
    /\ pc = "done"
    /\ Parsed /\ TheCommand.cmd = "Kpm"
    /\ Count("sc_kpm_load") = 1
    /\ calls[Len(calls)].res = Status(0 - 2)
    /\ IsErr(Unwrap(ret)) /\ Unwrap(ret).code = 0 - 2

ErrorsLogged(e) ==
    Cardinality({i \in 1 .. Len(log) : log[i].level = "error" /\ log[i].what = e})

\* C7: on the ManagementCLI path every error run() returns has been logged
\* exactly once before it is returned.
C7_EveryErrorLoggedOnce ==
    (pc = "done" /\ Parsed /\ IsSome(ret) /\ IsErr(Unwrap(ret))) =>
        ErrorsLogged(Unwrap(ret)) = 1

\* C8: privilege_apd_profile is called exactly once if a superkey was given and
\* never otherwise, and before any other call; an event command's collaborator
\* gets the same optional superkey and its result is what run() returns.
C8_RegisterThenDispatch ==
    Parsed =>
        /\ Count("privilege_apd_profile") <= 1
        /\ pc \in {"dispatch", "module_op", "log_result", "done"} =>
              Count("privilege_apd_profile") = IF IsSome(TheSuperkey) THEN 1 ELSE 0
        /\ \A i \in 1 .. Len(calls) :
              /\ calls[i].op = "privilege_apd_profile" =>
                    i = 1 /\ calls[i].args = <<TheSuperkey>>
              /\ calls[i].op \in EventFns =>
                    /\ TheCommand \in EventCommands
                    /\ calls[i].op = EventFn(TheCommand.cmd)
                    /\ calls[i].args = <<TheSuperkey>>
                    /\ i = Len(calls)
                    /\ pc = "log_result" => result = Some(calls[i].res)
                    /\ pc = "done" => ret = Some(calls[i].res)
        /\ (TheCommand \in EventCommands /\ Dispatched) => Count(EventFn(TheCommand.cmd)) = 1

C8_Witness ==
    /\ pc = "done"
    /\ Parsed /\ TheCommand.cmd = "PostFsData" /\ TheSuperkey = Some(<<1>>)
    /\ Len(calls) = 2
    /\ calls[1].op = "privilege_apd_profile"
    /\ calls[2].op = "on_post_data_fs" /\ calls[2].args = <<Some(<<1>>)>>
    /\ ret = Some(Err("on_post_data_fs", 1))

\* C9 (as stated): the credential sent with sc_kpm_load is the superkey given
\* for registration, and a `kpm load` without a superkey is refused with an
\* input error and no supercall.
C9_KeyIsSuperkey ==
    (Parsed /\ TheCommand.cmd = "Kpm") =>
        /\ \A i \in 1 .. Len(calls) :
              calls[i].op = "sc_kpm_load" =>
                 /\ IsSome(TheSuperkey)
                 /\ calls[i].args[1] = Unwrap(TheSuperkey) \o <<0>>
        /\ (pc = "done" /\ TheSuperkey = None) =>
              /\ Count("sc_kpm_load") = 0
              /\ IsSome(ret) /\ IsErr(Unwrap(ret))

\* C9 (amended): the credential sent with sc_kpm_load is the positional <key>
\* of `kpm load`, NUL-terminated and otherwise verbatim, whatever superkey was
\* or was not given for registration; with a valid key and path the supercall
\* is issued also when no superkey was given.
C9_KeyIsPositional ==
    (Parsed /\ TheCommand.cmd = "Kpm") =>
        /\ \A i \in 1 .. Len(calls) :
              calls[i].op = "sc_kpm_load" =>
                 /\ calls[i].args[1] = TheCommand.a1 \o <<0>>
                 /\ calls[i].args[2] = TheCommand.a2 \o <<0>>
        /\ (pc = "done" /\ TheSuperkey = None /\ ~HasNul(TheCommand.a1) /\ ~HasNul(TheCommand.a2)) =>
              Count("sc_kpm_load") = 1

C9_Witness ==
    /\ pc = "done"
    /\ Parsed /\ TheCommand.cmd = "Kpm"
    /\ TheSuperkey = Some(<<1>>) /\ TheCommand.a1 = <<1, 1>>
    /\ Len(calls) = 2
    /\ calls[2].op = "sc_kpm_load" /\ calls[2].args[1] = <<1, 1, 0>>

\* what the dispatched command alone makes of run(): cs are the calls made after registration
CommandOutcome(c, cs) ==
    IF c.cmd = "Kpm" /\ HasNul(c.a1) THEN Some(Err("Invalid key string", 0))
    ELSE IF c.cmd = "Kpm" /\ HasNul(c.a2) THEN Some(Err("Invalid path string", 0))
    ELSE IF cs = <<>> THEN None
    ELSE LET last == cs[Len(cs)] IN
         IF last.op = "sc_kpm_load"
         THEN Some(IF last.res.code < 0
                   THEN Err("System call failed with error code", last.res.code) ELSE Ok)
         ELSE Some(last.res)

\* C10: whether or not the registration took effect, run() goes on to
\* dispatch the command, and what it returns is the outcome of the dispatched
\* command alone.
C10_RegistrationNotFatal ==
    (Parsed /\ IsSome(TheSuperkey) /\ pc \in {"dispatch", "module_op", "log_result", "done"}) =>
        /\ Len(calls) >= 1 /\ calls[1].op = "privilege_apd_profile"
        /\ pc = "done" =>
              /\ IsSome(ret)
              /\ ret = CommandOutcome(TheCommand, Tail(calls))
              /\ (TheCommand.cmd # "Kpm" /\ (TheCommand.cmd # "Module" \/ HasMntNs(target_os))) =>
                     Len(calls) >= 2

C10_Witness ==
    /\ pc = "done"
    /\ Parsed /\ IsSome(TheSuperkey) /\ ~privileged
    /\ TheCommand.cmd = "Services"
    /\ Len(calls) = 2 /\ calls[2].op = "on_services"
    /\ ret = Some(Ok)
====
